---- MODULE Spec2Model ----
(***************************************************************************)
(* Model of the CSP solver of src/Assignment.py: the construction API of   *)
(* class CSP (add_variable, add_constraint_one_way,                        *)
(* add_all_different_constraint), the AC-3 pass (inference / revise) and   *)
(* the backtracking search (backtracking_search / backtrack), together     *)
(* with the two module-level counters.                                     *)
(*                                                                         *)
(* Python dictionaries keep insertion order, and the solver depends on it  *)
(* (arc order, first unassigned variable), so a dictionary is modelled by  *)
(* a function plus the order of its keys: the keys of self.domains and of  *)
(* self.constraints are the names of self.variables in order of first      *)
(* occurrence; self.constraints[i] is a sequence of entries                *)
(* [to |-> j, pairs |-> legal pairs] in insertion order.  A Python list of *)
(* legal pairs is only ever tested for membership, so it is a set here.    *)
(* A raised exception is modelled as a result kind ("KeyError",            *)
(* "IndexError") that unwinds every enclosing call.                        *)
(***************************************************************************)
EXTENDS Integers, Sequences, FiniteSets, TLC

\* ---- bounds of the model ----
MaxVars == 3        \* distinct variable names
MaxVal == 2         \* values are 1..MaxVal
MaxAdds == 3        \* add_variable calls (length of self.variables)
MaxCons == 2        \* constraint-authoring calls
MaxSolves == 2      \* successive backtracking_search calls on one model
MaxPasses == 2      \* successive inference calls on one snapshot

Names == <<"A", "B", "C", "D", "E">>
Vars == {Names[n] : n \in 1..MaxVars}
Vals == 1..MaxVal
Preds == {"neq", "lt"}

VARIABLES
    variables,             \* self.variables
    domains,               \* self.domains
    constraints,           \* self.constraints
    backtrack_call_count,  \* the module-level counter of backtrack calls
    failure_count,         \* the module-level counter of exhausted calls
    snapshot,              \* a caller's assignment, copy.deepcopy(csp.domains)
    passes,                \* what was done to the snapshot: "deepcopy", then
                           \* the outcome of each CSP.inference call on it
    history,               \* the outcome of each backtracking_search call
                           \* on the present model
    groups,                \* the groups given to add_all_different_constraint
    ncons,                 \* the number of constraint-authoring calls
    pc,                    \* where a running backtracking_search call is
    stack,                 \* the frames of the backtrack calls in progress
    pending,               \* the queue of the inference call in progress
    work,                  \* the assignment the call in progress acts on
    revision               \* the last single CSP.revise call on the snapshot

vars == <<variables, domains, constraints, backtrack_call_count,
          failure_count, snapshot, passes, history, groups, ncons,
          pc, stack, pending, work, revision>>

\* the variables of a backtracking_search call that is followed statement
\* by statement
running == <<pc, stack, pending, work>>

\* ---- small helpers on sequences ----
Range(s) == {s[n] : n \in 1..Len(s)}

RemoveAt(s, n) == SubSeq(s, 1, n - 1) \o SubSeq(s, n + 1, Len(s))

RECURSIVE Insert(_, _)
Insert(s, x) ==
    IF s = <<>> THEN <<x>>
    ELSE IF x < Head(s) THEN <<x>> \o s
    ELSE <<Head(s)>> \o Insert(Tail(s), x)

\* list.sort(): ascending order, duplicates kept
RECURSIVE Sort(_)
Sort(s) == IF s = <<>> THEN <<>> ELSE Insert(Sort(Tail(s)), Head(s))

\* the keys of a dictionary filled in the order of the list s
RECURSIVE DictKeys(_)
DictKeys(s) ==
    IF s = <<>> THEN <<>>
    ELSE LET r == DictKeys(SubSeq(s, 1, Len(s) - 1))
             l == s[Len(s)]
         IN IF l \in Range(r) THEN r ELSE Append(r, l)

\* the candidate lists handed to add_variable: distinct values, any order
DomainChoices ==
    {s \in UNION {[1..n -> Vals] : n \in 1..MaxVal} :
        \A a, b \in 1..Len(s) : a # b => s[a] # s[b]}

\* a filter function that lets every pair through
filter_function_true(p, x, y) == TRUE

\* the filter functions handed to add_constraint_one_way
filter_function(p, x, y) ==
    IF p = "neq" THEN x # y ELSE x < y

\* ---- the model (class CSP) ----
HasKey(cons, i, j) == \E n \in 1..Len(cons[i]) : cons[i][n].to = j

KeyIndex(cons, i, j) == CHOOSE n \in 1..Len(cons[i]) : cons[i][n].to = j

Legal(cons, i, j) == cons[i][KeyIndex(cons, i, j)].pairs

get_all_possible_pairs(a, b) == Range(a) \X Range(b)

add_constraint_one_way(cons, doms, i, j, p) ==
    LET seeded == IF HasKey(cons, i, j) THEN cons
                  ELSE [cons EXCEPT ![i] = Append(@,
                          [to |-> j,
                           pairs |-> get_all_possible_pairs(doms[i], doms[j])])]
        n == KeyIndex(seeded, i, j)
    IN [seeded EXCEPT ![i][n].pairs =
            {vp \in @ : filter_function(p, vp[1], vp[2])}]

\* the ordered pairs of itertools.product(var_list, var_list)
ProductSeq(l) ==
    [n \in 1..(Len(l) * Len(l)) |->
        <<l[((n - 1) \div Len(l)) + 1], l[((n - 1) % Len(l)) + 1]>>]

RECURSIVE AllDiffLoop(_, _, _)
AllDiffLoop(cons, doms, ps) ==
    IF ps = <<>> THEN cons
    ELSE LET i == Head(ps)[1]
             j == Head(ps)[2]
         IN IF i # j
            THEN AllDiffLoop(add_constraint_one_way(cons, doms, i, j, "neq"),
                             doms, Tail(ps))
            ELSE AllDiffLoop(cons, doms, Tail(ps))

add_all_different_constraint(cons, doms, var_list) ==
    AllDiffLoop(cons, doms, ProductSeq(var_list))

RECURSIVE ArcsFrom(_, _)
ArcsFrom(cons, ks) ==
    IF ks = <<>> THEN <<>>
    ELSE [n \in 1..Len(cons[Head(ks)]) |-> <<Head(ks), cons[Head(ks)][n].to>>]
         \o ArcsFrom(cons, Tail(ks))

get_all_arcs(cons, keys) == ArcsFrom(cons, keys)

\* the arcs from var to its neighbours, (var, i) instead of (i, var)
get_all_arcs_from(cons, var) ==
    [n \in 1..Len(cons[var]) |-> <<var, cons[var][n].to>>]

get_all_neighboring_arcs(cons, var) ==
    [n \in 1..Len(cons[var]) |-> <<cons[var][n].to, var>>]

\* ---- AC-3 (CSP.revise, CSP.inference) ----
\* the support test with the pair looked up as (y, x) instead of (x, y)
SupportedSwapped(cons, x, dj, x_i, x_j) ==
    \E n \in 1..Len(dj) : <<dj[n], x>> \in Legal(cons, x_i, x_j)

\* some y of domain x_j makes (x, y) a legal pair of constraints[x_i][x_j]
Supported(cons, x, dj, x_i, x_j) ==
    \E n \in 1..Len(dj) : <<x, dj[n]>> \in Legal(cons, x_i, x_j)

\* The for-loop of revise: enumerate() walks the list by position while
\* pop(i) shortens it, so the position moves on after a removal as well.
RECURSIVE ReviseLoop(_, _, _, _, _, _)
ReviseLoop(cons, di, idx, dj, x_i, x_j) ==
    IF idx > Len(di) THEN [dom |-> di, revised |-> FALSE]
    ELSE IF ~Supported(cons, di[idx], dj, x_i, x_j)
         THEN [dom |-> ReviseLoop(cons, RemoveAt(di, idx), idx + 1,
                                  dj, x_i, x_j).dom,
               revised |-> TRUE]
         ELSE ReviseLoop(cons, di, idx + 1, dj, x_i, x_j)

\* self.constraints[x_i][x_j] is looked up when the first pair (x, y) is
\* tested: a missing entry raises KeyError unless one of the two domains is
\* empty, in which case no pair is ever tested
revise(cons, assignment, x_i, x_j) ==
    IF /\ ~HasKey(cons, x_i, x_j)
       /\ Len(assignment[x_i]) > 0
       /\ Len(assignment[x_j]) > 0
    THEN [a |-> assignment, revised |-> FALSE, err |-> TRUE]
    ELSE LET r == ReviseLoop(cons, assignment[x_i], 1,
                             assignment[x_j], x_i, x_j)
         IN [a |-> [assignment EXCEPT ![x_i] = r.dom],
             revised |-> r.revised, err |-> FALSE]

\* res is "ok" (the assignment is returned), "False" (a domain was emptied)
\* or "KeyError"; a is the caller's assignment as the call leaves it, since
\* the dictionary is changed in place.
RECURSIVE inference(_, _, _)
inference(cons, assignment, queue) ==
    IF queue = <<>> THEN [a |-> assignment, res |-> "ok"]
    ELSE LET x_j == Head(queue)[1]
             x_i == Head(queue)[2]
             r == revise(cons, assignment, x_i, x_j)
         IN IF r.err THEN [a |-> r.a, res |-> "KeyError"]
            ELSE IF r.revised
                 THEN IF Len(r.a[x_i]) = 0
                      THEN [a |-> r.a, res |-> "False"]
                      ELSE inference(cons, r.a,
                             Tail(queue) \o
                             SelectSeq(get_all_neighboring_arcs(cons, x_i),
                                       LAMBDA x : x_j \notin {x[1], x[2]}))
                 ELSE inference(cons, r.a, Tail(queue))

\* ---- backtracking search (CSP.select_unassigned_variable, CSP.backtrack,
\* ---- CSP.backtracking_search) ----
Unassigned(assignment, keys) ==
    SelectSeq(keys, LAMBDA key : Len(assignment[key]) > 1)

\* element [0] of the filtered key list; the caller handles the empty list,
\* where Python raises IndexError
select_unassigned_variable(assignment, keys) ==
    Head(Unassigned(assignment, keys))

\* A call returns kind "Solution" (with the assignment a), "False",
\* "IndexError" or "KeyError", and the number of times the two counters were
\* incremented by the call and the calls below it.
RECURSIVE backtrack(_, _, _)
RECURSIVE TryValues(_, _, _, _, _, _)

\* the for-loop of backtrack over the sorted values var, from position n on;
\* ass2 is the one copy all iterations share
TryValues(cons, keys, ass2, key, var, n) ==
    IF n > Len(var)
    THEN [kind |-> "False", a |-> ass2, calls |-> 0, fails |-> 1]
    ELSE LET inf == inference(cons, [ass2 EXCEPT ![key] = <<var[n]>>],
                              get_all_neighboring_arcs(cons, key))
         IN IF inf.res = "KeyError"
            THEN [kind |-> "KeyError", a |-> inf.a, calls |-> 0, fails |-> 0]
            ELSE IF inf.res = "False"
            THEN TryValues(cons, keys, inf.a, key, var, n + 1)
            ELSE LET res == backtrack(cons, keys, inf.a)
                 IN IF res.kind # "False"
                    THEN res
                    ELSE LET rest == TryValues(cons, keys, inf.a, key, var,
                                               n + 1)
                         IN [rest EXCEPT !.calls = @ + res.calls,
                                         !.fails = @ + res.fails]

backtrack(cons, keys, assignment) ==
    IF \A v \in DOMAIN assignment : Len(assignment[v]) = 1
    THEN [kind |-> "Solution", a |-> assignment, calls |-> 1, fails |-> 0]
    ELSE IF Unassigned(assignment, keys) = <<>>
    THEN [kind |-> "IndexError", a |-> assignment, calls |-> 1, fails |-> 0]
    ELSE LET key == select_unassigned_variable(assignment, keys)
             r == TryValues(cons, keys, assignment, key,
                            Sort(assignment[key]), 1)
         IN [r EXCEPT !.calls = @ + 1]

\* The same call without the deep copy of line 142: the pre-pass prunes
\* self.domains itself.
backtracking_search_in_place(cons, doms, keys) ==
    LET pre == inference(cons, doms, get_all_arcs(cons, keys))
    IN IF pre.res = "KeyError"
       THEN [kind |-> "KeyError", a |-> <<>>, calls |-> 0, fails |-> 0,
             prepass |-> pre.res, domains |-> pre.a]
       ELSE LET r == backtrack(cons, keys, pre.a)
            IN [kind |-> r.kind,
                a |-> IF r.kind = "Solution" THEN r.a ELSE <<>>,
                calls |-> r.calls,
                fails |-> r.fails, prepass |-> pre.res, domains |-> pre.a]

\* prepass is the outcome of the AC-3 pass over all arcs, whose return value
\* the code drops; only an exception keeps backtrack from being called.
\* domains is self.domains as the call leaves it: the pass and the search
\* work on a deep copy (line 142), and backtrack copies again (line 179).
backtracking_search(cons, doms, keys) ==
    LET pre == inference(cons, doms, get_all_arcs(cons, keys))
    IN IF pre.res = "KeyError"
       THEN [kind |-> "KeyError", a |-> <<>>, calls |-> 0, fails |-> 0,
             prepass |-> pre.res, domains |-> doms]
       ELSE LET r == backtrack(cons, keys, pre.a)
            IN [kind |-> r.kind,
                a |-> IF r.kind = "Solution" THEN r.a ELSE <<>>,
                calls |-> r.calls,
                fails |-> r.fails, prepass |-> pre.res, domains |-> doms]

\* ---- the state machine ----
Registered == Range(variables)

\* names are opaque: a new variable takes the next unused name
NextName == Names[Cardinality(Registered) + 1]

\* the list of the registered variables of S, in registration order
ListOf(S) == SelectSeq(DictKeys(variables), LAMBDA v : v \in S)

\* The script builds the model, then uses it (lines 355-360): the model is
\* explored up to its first use.  A solve neither reads nor writes a
\* caller's snapshot and an inference call on a snapshot neither reads nor
\* writes the counters, so the two uses are explored one at a time.
Building == history = <<>> /\ passes = <<>> /\ pc = "idle"

Init ==
    /\ variables = <<>>
    /\ domains = <<>>
    /\ constraints = <<>>
    /\ backtrack_call_count = 0
    /\ failure_count = 0
    /\ snapshot = <<>>
    /\ passes = <<>>
    /\ history = <<>>
    /\ groups = {}
    /\ ncons = 0
    /\ pc = "idle"
    /\ stack = <<>>
    /\ pending = <<>>
    /\ work = <<>>
    /\ revision = <<>>

\* CSP.add_variable(name, domain), for a new or an already registered name
AddVariable(name, domain) ==
    /\ Building
    /\ Len(variables) < MaxAdds
    /\ variables' = Append(variables, name)
    /\ domains' = [v \in Registered \cup {name} |->
                      IF v = name THEN domain ELSE domains[v]]
    /\ constraints' = [v \in Registered \cup {name} |->
                          IF v = name THEN <<>> ELSE constraints[v]]
    /\ UNCHANGED <<backtrack_call_count, failure_count, snapshot, passes,
                   history, groups, ncons, running, revision>>

\* CSP.add_constraint_one_way(i, j, filter_function)
AddConstraintOneWay(i, j, p) ==
    /\ Building
    /\ ncons < MaxCons
    /\ i \in Registered /\ j \in Registered /\ i # j
    /\ constraints' = add_constraint_one_way(constraints, domains, i, j, p)
    /\ ncons' = ncons + 1
    /\ UNCHANGED <<variables, domains, backtrack_call_count, failure_count,
                   snapshot, passes, history, groups, running, revision>>

\* CSP.add_all_different_constraint(var_list)
AddAllDifferent(S) ==
    /\ Building
    /\ ncons < MaxCons
    /\ S \subseteq Registered /\ Cardinality(S) >= 2
    /\ constraints' = add_all_different_constraint(constraints, domains,
                                                   ListOf(S))
    /\ groups' = groups \cup {S}
    /\ ncons' = ncons + 1
    /\ UNCHANGED <<variables, domains, backtrack_call_count, failure_count,
                   snapshot, passes, history, running, revision>>

\* what history keeps of a backtracking_search call that returned r when
\* the counters stood at calls and fails: what the call returned and the
\* counters read after it
Outcome(r, calls, fails) ==
    [kind |-> r.kind, a |-> r.a, prepass |-> r.prepass,
     calls |-> r.calls, fails |-> r.fails,
     call_count |-> calls + r.calls,
     fail_count |-> fails + r.fails]

\* CSP.backtracking_search(); history keeps the outcome of each of the
\* successive calls on the present model
Solve ==
    /\ passes = <<>> /\ pc = "idle"
    /\ Len(history) < MaxSolves
    /\ LET r == backtracking_search(constraints, domains,
                                    DictKeys(variables))
       IN /\ history' = Append(history, Outcome(r, backtrack_call_count,
                                                failure_count))
          /\ domains' = r.domains
    /\ backtrack_call_count' = history'[Len(history')].call_count
    /\ failure_count' = history'[Len(history')].fail_count
    /\ UNCHANGED <<variables, constraints, snapshot, passes, groups, ncons,
                   running, revision>>

\* assignment = copy.deepcopy(csp.domains), as in line 142 and line 356
Snapshot ==
    /\ Building
    /\ snapshot' = domains
    /\ passes' = <<"deepcopy">>
    /\ UNCHANGED <<variables, domains, constraints, backtrack_call_count,
                   failure_count, history, groups, ncons, running, revision>>

\* csp.inference(assignment, csp.get_all_arcs()) on the caller's snapshot,
\* which the call changes in place
Inference ==
    /\ passes # <<>>
    /\ Len(passes) <= MaxPasses
    /\ LET r == inference(constraints, snapshot,
                          get_all_arcs(constraints, DictKeys(variables)))
       IN /\ snapshot' = r.a
          /\ passes' = Append(passes, r.res)
    /\ UNCHANGED <<variables, domains, constraints, backtrack_call_count,
                   failure_count, history, groups, ncons, running, revision>>

\* one csp.revise(assignment, x_i, x_j) call on a fresh snapshot, for a pair
\* with a registered constraint; revision keeps the arguments, the snapshot
\* before the call and the flag returned
Revise(x_i, x_j) ==
    /\ passes = <<"deepcopy">>
    /\ x_i \in Registered /\ x_j \in Registered
    /\ HasKey(constraints, x_i, x_j)
    /\ LET r == revise(constraints, snapshot, x_i, x_j)
       IN /\ snapshot' = r.a
          /\ revision' = <<[x_i |-> x_i, x_j |-> x_j, before |-> snapshot,
                            revised |-> r.revised]>>
    /\ passes' = Append(passes, "revise")
    /\ UNCHANGED <<variables, domains, constraints, backtrack_call_count,
                   failure_count, history, groups, ncons, running>>

Next ==
    \/ \E name \in Registered, domain \in DomainChoices :
          AddVariable(name, domain)
    \/ \E domain \in DomainChoices :
          /\ Cardinality(Registered) < MaxVars
          /\ AddVariable(NextName, domain)
    \/ \E i, j \in Vars, p \in Preds : AddConstraintOneWay(i, j, p)
    \/ \E S \in SUBSET Vars : AddAllDifferent(S)
    \/ Solve
    \/ Snapshot
    \/ Inference
    \/ \E x_i, x_j \in Vars : Revise(x_i, x_j)

Spec == Init /\ [][Next]_vars

\* ---- backtracking_search followed statement by statement ----
\* pc is "idle" before the call, "prepass" in the inference call of line 146,
\* "enter" at the entry of a backtrack call, "loop" at the head of the
\* for-loop of line 187, "infer" in the inference call of line 192, and at
\* the end what the call returned or raised.
Terminal == {"Solution", "False", "IndexError", "KeyError"}

\* A frame of backtrack holds its parameter assignment, its copy ass2, the
\* selected key, the sorted list var the loop iterates over and the number
\* n of values the loop has taken.
Top == stack[Len(stack)]

\* ass2 of the top frame is the dictionary the inference call of line 192
\* changes in place
TopWith(a) == [stack EXCEPT ![Len(stack)].ass2 = a]

\* the same without the deep copy of line 179: the callee's ass2 is the
\* caller's own dictionary
CallerAss2Shared(caller, callee) == callee

\* ass2 of the calling frame when a backtrack call returns: the callee
\* worked on its own deep copy (line 179)
CallerAss2(caller, callee) == caller

\* lines 142-146: the deep copy of self.domains and the queue of all arcs
StartSearch ==
    /\ Building
    /\ work' = domains
    /\ pending' = get_all_arcs(constraints, DictKeys(variables))
    /\ pc' = "prepass"
    /\ UNCHANGED <<variables, domains, constraints, backtrack_call_count,
                   failure_count, snapshot, passes, history, groups, ncons,
                   stack, revision>>

\* one iteration of the while-loop of inference (lines 227-236)
InferenceStep ==
    /\ pc \in {"prepass", "infer"}
    /\ pending # <<>>
    /\ LET x_j == Head(pending)[1]
           x_i == Head(pending)[2]
           r == revise(constraints, work, x_i, x_j)
       IN /\ work' = r.a
          /\ IF r.err
             THEN /\ pc' = "KeyError"
                  /\ pending' = Tail(pending)
                  /\ stack' = <<>>
             ELSE IF r.revised /\ Len(r.a[x_i]) = 0
             THEN /\ pending' = Tail(pending)
                  /\ IF pc = "prepass"
                     THEN pc' = "enter" /\ stack' = stack
                     ELSE pc' = "loop" /\ stack' = TopWith(r.a)
             ELSE /\ pending' =
                        IF r.revised
                        THEN Tail(pending) \o
                             SelectSeq(get_all_neighboring_arcs(constraints,
                                                                x_i),
                                       LAMBDA x : x_j \notin {x[1], x[2]})
                        ELSE Tail(pending)
                  /\ pc' = pc
                  /\ stack' = IF pc = "infer" THEN TopWith(r.a) ELSE stack
    /\ UNCHANGED <<variables, domains, constraints, backtrack_call_count,
                   failure_count, snapshot, passes, history, groups, ncons,
                   revision>>

\* the queue is empty: inference returns the assignment (line 237) and
\* backtrack is called with it (lines 149 and 195)
InferenceReturn ==
    /\ pc \in {"prepass", "infer"}
    /\ pending = <<>>
    /\ pc' = "enter"
    /\ UNCHANGED <<variables, domains, constraints, backtrack_call_count,
                   failure_count, snapshot, passes, history, groups, ncons,
                   stack, pending, work, revision>>

\* the entry of backtrack without the statement of line 177
BacktrackEntryUncounted ==
    /\ pc = "enter"
    /\ backtrack_call_count' = backtrack_call_count
    /\ IF \A v \in DOMAIN work : Len(work[v]) = 1
       THEN pc' = "Solution" /\ stack' = <<>>
       ELSE IF Unassigned(work, DictKeys(variables)) = <<>>
       THEN pc' = "IndexError" /\ stack' = <<>>
       ELSE LET key == select_unassigned_variable(work, DictKeys(variables))
                var == Sort(work[key])
            IN /\ pc' = "loop"
               /\ stack' = Append(stack,
                      [assignment |-> work,
                       ass2 |-> [work EXCEPT ![key] = var],
                       key |-> key, var |-> var, n |-> 0])
    /\ UNCHANGED <<variables, domains, constraints, failure_count, snapshot,
                   passes, history, groups, ncons, pending, work, revision>>

\* lines 176-186: the counter, the deep copy, the goal test and the
\* selection; a Solution is handed up through every frame (lines 198-199),
\* an IndexError unwinds them
BacktrackEntry ==
    /\ pc = "enter"
    /\ backtrack_call_count' = backtrack_call_count + 1
    /\ IF \A v \in DOMAIN work : Len(work[v]) = 1
       THEN pc' = "Solution" /\ stack' = <<>>
       ELSE IF Unassigned(work, DictKeys(variables)) = <<>>
       THEN pc' = "IndexError" /\ stack' = <<>>
       ELSE LET key == select_unassigned_variable(work, DictKeys(variables))
                var == Sort(work[key])
            IN /\ pc' = "loop"
               /\ stack' = Append(stack,
                      [assignment |-> work,
                       ass2 |-> [work EXCEPT ![key] = var],
                       key |-> key, var |-> var, n |-> 0])
    /\ UNCHANGED <<variables, domains, constraints, failure_count, snapshot,
                   passes, history, groups, ncons, pending, work, revision>>

\* lines 187-192: the next value of var becomes the only value of key and
\* inference is called with the arcs get_all_neighboring_arcs(key)
TryValue ==
    /\ pc = "loop"
    /\ Top.n < Len(Top.var)
    /\ LET ass2 == [Top.ass2 EXCEPT ![Top.key] = <<Top.var[Top.n + 1]>>]
       IN /\ stack' = [stack EXCEPT ![Len(stack)].ass2 = ass2,
                                    ![Len(stack)].n = @ + 1]
          /\ work' = ass2
    /\ pending' = get_all_neighboring_arcs(constraints, Top.key)
    /\ pc' = "infer"
    /\ UNCHANGED <<variables, domains, constraints, backtrack_call_count,
                   failure_count, snapshot, passes, history, groups, ncons,
                   revision>>

\* lines 200-203: var is used up; the call counts a failure and returns
\* False to the loop of its caller, or to backtracking_search
Exhausted ==
    /\ pc = "loop"
    /\ Top.n = Len(Top.var)
    /\ failure_count' = failure_count + 1
    /\ IF Len(stack) = 1
       THEN pc' = "False" /\ stack' = <<>>
       ELSE /\ pc' = "loop"
            /\ stack' = [SubSeq(stack, 1, Len(stack) - 1)
                            EXCEPT ![Len(stack) - 1].ass2 =
                                CallerAss2(@, Top.ass2)]
    /\ UNCHANGED <<variables, domains, constraints, backtrack_call_count,
                   snapshot, passes, history, groups, ncons, pending, work,
                   revision>>

\* a statement of a call in progress
SearchStep ==
    \/ InferenceStep
    \/ InferenceReturn
    \/ BacktrackEntry
    \/ TryValue
    \/ Exhausted

SearchNext ==
    \/ \E name \in Registered, domain \in DomainChoices :
          AddVariable(name, domain)
    \/ \E domain \in DomainChoices :
          /\ Cardinality(Registered) < MaxVars
          /\ AddVariable(NextName, domain)
    \/ \E i, j \in Vars, p \in Preds : AddConstraintOneWay(i, j, p)
    \/ \E S \in SUBSET Vars : AddAllDifferent(S)
    \/ StartSearch
    \/ InferenceStep
    \/ InferenceReturn
    \/ BacktrackEntry
    \/ TryValue
    \/ Exhausted

\* a call in progress executes its next statement
SearchSpec == Init /\ [][SearchNext]_vars /\ WF_vars(SearchStep)

\* ---- vocabulary of the properties ----
\* the ordered pairs (i, j) with a registered constraint
Arcs == {<<i, j>> \in Registered \X Registered : HasKey(constraints, i, j)}

\* every domain of a has exactly one value
SingleValued(a) == \A v \in DOMAIN a : Len(a[v]) = 1

\* the single values of a satisfy every registered constraint
SatisfiesAll(a) ==
    \A arc \in Arcs :
        <<a[arc[1]][1], a[arc[2]][1]>> \in Legal(constraints, arc[1], arc[2])

\* exhaustive enumeration: the choices of one value per variable, each from
\* the variable's initial domain, that satisfy every registered constraint
SatisfyingAssignments ==
    {f \in [Registered -> Vals] :
        /\ \A v \in Registered : f[v] \in Range(domains[v])
        /\ \A arc \in Arcs :
              <<f[arc[1]], f[arc[2]]>> \in Legal(constraints, arc[1], arc[2])}

Returned == {history[n] : n \in 1..Len(history)}

\* C1: whenever backtracking_search returns a Solution, every domain in it
\* has exactly one value and every registered constraint (i, j) holds of
\* (value_i, value_j).
Soundness ==
    \A h \in Returned :
        h.kind = "Solution" => SingleValued(h.a) /\ SatisfiesAll(h.a)

\* C2: when exhaustive enumeration finds a satisfying assignment,
\* backtracking_search returns a Solution.
Completeness ==
    \A h \in Returned : SatisfyingAssignments # {} => h.kind = "Solution"

\* C3: when exhaustive enumeration finds no satisfying assignment,
\* backtracking_search returns Failure (False) and nothing else.
UnsatDetection ==
    \A h \in Returned : SatisfyingAssignments = {} => h.kind = "False"

\* C4: backtracking_search ends by returning a single-valued assignment or
\* the failure value, never in an error (KeyError in revise, IndexError in
\* select_unassigned_variable).
NoErrorState ==
    \A h \in Returned :
        \/ h.kind = "Solution" /\ SingleValued(h.a)
        \/ h.kind = "False"

\* C5: when the AC-3 pass over all arcs empties a domain,
\* backtracking_search returns Failure and backtrack is never entered (that
\* solve does not increment the search-call counter).
PrepassWipeoutFails ==
    \A h \in Returned :
        h.prepass = "False" => h.kind = "False" /\ h.calls = 0

\* C6: in every Solution returned, no two distinct variables of a group
\* given to add_all_different_constraint hold the same value.
AllDifferentCorrect ==
    \A h \in Returned : \A S \in groups : \A i, j \in S :
        (h.kind = "Solution" /\ i # j) => h.a[i][1] # h.a[j][1]

\* C7: two successive backtracking_search calls on a fixed model return the
\* identical result, and the two counters read after the second call equal
\* those read after the first.
Determinism ==
    Len(history) >= 2 =>
        /\ history[2].kind = history[1].kind
        /\ history[2].a = history[1].a
        /\ history[2].call_count = history[1].call_count
        /\ history[2].fail_count = history[1].fail_count

\* C8: the counters are reset at the start of each backtracking_search
\* call, so after any sequence of solves they describe only the most recent
\* solve.
CountersResetPerSolve ==
    history # <<>> =>
        /\ backtrack_call_count = history[Len(history)].calls
        /\ failure_count = history[Len(history)].fails

\* a fully specified valid puzzle with all-different groups: every initial
\* domain is a singleton, the constraints are registered in both directions,
\* as all-different groups register them, and the given values satisfy every
\* registered constraint
FullySpecifiedValid ==
    /\ groups # {}
    /\ SingleValued(domains)
    /\ \A arc \in Arcs : <<arc[2], arc[1]>> \in Arcs
    /\ SatisfiesAll(domains)

\* C9 as stated: for a fully specified valid puzzle, backtracking_search
\* returns exactly the given assignment, with a search-call count of zero
\* and a failure count of zero for that solve.
FullySpecifiedZeroCalls ==
    \A h \in Returned :
        FullySpecifiedValid =>
            /\ h.kind = "Solution" /\ h.a = domains
            /\ h.calls = 0 /\ h.fails = 0

\* C9 as amended: for a fully specified valid puzzle, backtracking_search
\* returns exactly the given assignment; that solve enters backtrack once,
\* for the goal test, so it adds one to the search-call counter, and it adds
\* nothing to the failure counter.
FullySpecifiedOneCall ==
    \A h \in Returned :
        FullySpecifiedValid =>
            /\ h.kind = "Solution" /\ h.a = domains
            /\ h.calls = 1 /\ h.fails = 0

\* a fully specified valid puzzle with an all-different group has been solved
FullySpecifiedSolved ==
    /\ FullySpecifiedValid
    /\ \E S \in groups : \A i, j \in S : i # j => <<i, j>> \in Arcs
    /\ history # <<>>
    /\ history[1].kind = "Solution"

\* C10: when inference over all arcs has returned an assignment, running
\* inference over all arcs again on that result returns an assignment with
\* exactly the same domains.
AC3Idempotent ==
    [][(/\ Len(passes) >= 2
        /\ passes[Len(passes)] = "ok"
        /\ passes' # passes)
       => (passes'[Len(passes')] = "ok" /\ snapshot' = snapshot)]_vars

\* C11: add_variable(name, domain) fails when name is already registered and
\* leaves the variables list, the domains and the constraints unchanged: no
\* step registers a name a second time.
DuplicateVariableRejected ==
    [][\A name \in Registered : variables' # Append(variables, name)]_vars

\* C13: when inference over all arcs drains its queue and returns an
\* assignment, every registered arc is consistent in it: every value x left
\* in domain(i) has a value y in domain(j) with (x, y) in constraints[i][j].
AC3Fixpoint ==
    (Len(passes) >= 2 /\ passes[Len(passes)] = "ok") =>
        \A arc \in Arcs : \A x \in Range(snapshot[arc[1]]) :
            \E y \in Range(snapshot[arc[2]]) :
                <<x, y>> \in Legal(constraints, arc[1], arc[2])

\* C16: over any sequence of construction calls, a repeated add_variable
\* included, the legal-pair set of an ordered pair (i, j), once it exists,
\* stays and only ever loses pairs.
ConstraintsOnlyNarrow ==
    [][\A i, j \in Registered :
          HasKey(constraints, i, j) =>
              /\ HasKey(constraints', i, j)
              /\ Legal(constraints', i, j) \subseteq Legal(constraints, i, j)]_vars

\* C14: after one call revise(assignment, x_i, x_j) the values left in
\* domain(x_i) are exactly those that had a partner y in domain(x_j) with
\* (x, y) in constraints[x_i][x_j] (the unsupported ones are removed, the
\* supported ones kept), and the flag returned is true exactly when a value
\* was removed.
ReviseRemovesUnsupported ==
    (revision # <<>> /\ passes[Len(passes)] = "revise") =>
        LET call == revision[1]
            di == call.before[call.x_i]
            dj == call.before[call.x_j]
        IN /\ Range(snapshot[call.x_i]) =
                  {x \in Range(di) : \E y \in Range(dj) :
                      <<x, y>> \in Legal(constraints, call.x_i, call.x_j)}
           /\ call.revised <=> (snapshot[call.x_i] # di)

\* C18: when backtracking_search returns, with a Solution or with failure,
\* the variables list, the initial domains in self.domains and the legal
\* pairs in self.constraints are what they were before the call.
ModelReadOnly ==
    [][history' # history =>
          /\ variables' = variables
          /\ domains' = domains
          /\ constraints' = constraints]_vars

\* a solve has returned a Solution that is narrower than the initial
\* domains: the solver has pruned its own copy
SolvedByPruning ==
    /\ history # <<>>
    /\ history[1].kind = "Solution"
    /\ history[1].a # domains
    /\ \E v \in Registered : Len(domains[v]) > 1

\* C15: inside one backtrack call, whenever the loop is at its head (so
\* after every failed candidate), the copy ass2 used for the next candidate
\* has, for every variable other than the selected one, the domain it had
\* when the call was entered; and a backtrack call that returns failure
\* leaves the frame of its caller, the caller's ass2 included, as it was.
BranchIsolation ==
    /\ [](pc = "loop" =>
            \A v \in DOMAIN Top.ass2 \ {Top.key} :
                Top.ass2[v] = Top.assignment[v])
    /\ [][(pc = "loop" /\ Len(stack') < Len(stack) /\ stack' # <<>>) =>
             stack'[Len(stack')] = stack[Len(stack')]]_vars

\* a nested backtrack call has failed and its caller, which had already
\* seen a candidate fail, is back at the head of its loop with a candidate
\* left
FailedBranchLeft ==
    /\ pc = "loop"
    /\ failure_count >= 1
    /\ Top.n >= 1
    /\ Top.n < Len(Top.var)

\* C17: every inference call ends by draining its queue or by reporting a
\* wipeout, and backtracking_search returns, a Solution or failure.
SearchTerminates ==
    /\ (pc \in {"prepass", "infer"}) ~> (pc \in {"enter", "loop"})
    /\ (pc = "prepass") ~> (pc \in {"Solution", "False"})

\* C19: every entry into backtrack adds exactly one to the call counter,
\* every backtrack call that has used up its values and returns failure
\* adds exactly one to the failure counter, no other statement changes a
\* counter (a call that returns a Solution adds nothing to the failure
\* counter), and the failure counter is never above the call counter.
CounterProtocol ==
    /\ [][IF pc = "enter"
          THEN /\ backtrack_call_count' = backtrack_call_count + 1
               /\ failure_count' = failure_count
          ELSE IF pc = "loop" /\ Top.n = Len(Top.var)
          THEN /\ failure_count' = failure_count + 1
               /\ backtrack_call_count' = backtrack_call_count
          ELSE /\ backtrack_call_count' = backtrack_call_count
               /\ failure_count' = failure_count]_vars
    /\ [](failure_count <= backtrack_call_count)

\* a search has returned failure after more than one backtrack call was
\* entered and used up its values
SearchExhausted ==
    /\ pc = "False"
    /\ backtrack_call_count >= 2
    /\ failure_count >= 2

\* C20: in the search, after the pre-pass, an iteration of the inference
\* call made for a tentative value changes the selected variable's domain
\* only: it leaves the single value in place, or empties the domain and
\* inference fails; it changes no other domain and appends no arc to the
\* queue.
InferenceTouchesOnlyKey ==
    [][(pc = "infer" /\ pending # <<>>) =>
          /\ work[Top.key] = <<Top.var[Top.n]>>
          /\ \A v \in DOMAIN work \ {Top.key} : work'[v] = work[v]
          /\ work'[Top.key] \in {work[Top.key], <<>>}
          /\ work'[Top.key] = <<>> => pc' = "loop"
          /\ pending' = Tail(pending)]_vars

\* the inference call for a tentative value has emptied the selected
\* variable's domain and failed, in a model where the variable has a
\* neighbour with more than one value left
TentativeValueRejected ==
    /\ pc = "loop"
    /\ Top.n >= 1
    /\ Top.ass2[Top.key] = <<>>
    /\ \E n \in 1..Len(constraints[Top.key]) :
          Len(Top.ass2[constraints[Top.key][n].to]) > 1

\* ---- the map colouring scenario (create_map_coloring_csp) ----
\* The colours of line 284, numbered in the order in which Python compares
\* the strings, 'blue' < 'green' < 'red', which is the order var.sort()
\* gives them in line 186.
blue == 1
green == 2
red == 3

states == <<"WA", "NT", "Q", "NSW", "V", "SA", "T">>

\* the pairs (state, other_state) in the order of the loops of lines 287-288
edges == << <<"SA", "WA">>, <<"SA", "NT">>, <<"SA", "Q">>, <<"SA", "NSW">>,
            <<"SA", "V">>, <<"NT", "WA">>, <<"NT", "Q">>, <<"NSW", "Q">>,
            <<"NSW", "V">> >>

\* the list colors: the three colours in any order (the source has red,
\* green, blue)
ColorLists ==
    {c \in [1..Cardinality({red, green, blue}) -> {red, green, blue}] :
        \A m, n \in DOMAIN c : m # n => c[m] # c[n]}

\* one iteration of the loop of lines 285-286; every iteration hands the
\* same list colors to add_variable
MapAddVariable(colors) ==
    /\ Building
    /\ Len(variables) < Len(states)
    /\ IF variables = <<>> THEN TRUE ELSE colors = domains[variables[1]]
    /\ LET state == states[Len(variables) + 1]
       IN /\ variables' = Append(variables, state)
          /\ domains' = [v \in Registered \cup {state} |->
                            IF v = state THEN colors ELSE domains[v]]
          /\ constraints' = [v \in Registered \cup {state} |->
                                IF v = state THEN <<>> ELSE constraints[v]]
    /\ UNCHANGED <<backtrack_call_count, failure_count, snapshot, passes,
                   history, groups, ncons, running, revision>>

\* one iteration of the loop of lines 288-290: the constraint i != j in both
\* directions; ncons counts the iterations
MapAddEdge ==
    /\ Building
    /\ Len(variables) = Len(states)
    /\ ncons < Len(edges)
    /\ LET state == edges[ncons + 1][1]
           other_state == edges[ncons + 1][2]
           one == add_constraint_one_way(constraints, domains,
                                         state, other_state, "neq")
       IN constraints' = add_constraint_one_way(one, domains,
                                                other_state, state, "neq")
    /\ ncons' = ncons + 1
    /\ UNCHANGED <<variables, domains, backtrack_call_count, failure_count,
                   snapshot, passes, history, groups, running, revision>>

\* the map is built loop iteration by loop iteration and can be solved at
\* every stage
MapNext ==
    \/ \E colors \in ColorLists : MapAddVariable(colors)
    \/ MapAddEdge
    \/ Solve

MapSpec == Init /\ [][MapNext]_vars

\* C12: on the map of create_map_coloring_csp, at every stage of its
\* construction and so on the complete map, backtracking_search returns a
\* Solution in which every state has exactly one colour and the two ends
\* of every edge added so far have different colours.
MapColoringSolved ==
    \A h \in Returned :
        /\ h.kind = "Solution"
        /\ DOMAIN h.a = Registered
        /\ \A v \in Registered :
              Len(h.a[v]) = 1 /\ h.a[v][1] \in {red, green, blue}
        /\ \A n \in 1..ncons : h.a[edges[n][1]][1] # h.a[edges[n][2]][1]

\* the complete map of seven states and nine edges has been solved
MapColoringComplete ==
    /\ variables = states
    /\ ncons = Len(edges)
    /\ history # <<>>
    /\ history[1].kind = "Solution"
    /\ history[1].a["SA"] # history[1].a["WA"]

====
